---- MODULE Spec2Model ----
(***************************************************************************)
(* Model of the scene composition service (app.py).                        *)
(*                                                                         *)
(* process_scene is modelled as a state machine per worker thread: every   *)
(* worker handles one request at a time and keeps its thread-local         *)
(* request_data between requests.  The file system (scratch directories    *)
(* under UPLOAD_FOLDER, OUTPUT_FOLDER, DEBUG_FOLDER) is shared by all      *)
(* workers.  The external collaborators (HTTP fetch, ffprobe, ffmpeg,      *)
(* rmtree) answer nondeterministically with every outcome the code         *)
(* distinguishes.                                                          *)
(*                                                                         *)
(* uuid4() and the timestamp are modelled as never colliding: a name made  *)
(* from them carries the id of the request that made it and its role.      *)
(* Durations are integers (one unit = one second).                         *)
(***************************************************************************)
EXTENDS Integers, Sequences, FiniteSets, TLC

\* ------------------------------------------------------------------ bounds
MaxRequests == 2
MaxShots == 2
MaxTime == 3

Workers == {"w1", "w2"}

\* ------------------------------------------------------------- file system
\* A directory is <<kind, n>>; a path is <<kind, n, role, r, k>>.
UPLOAD_FOLDER == <<"uploads", 0>>
OUTPUT_FOLDER == <<"output", 0>>
DEBUG_FOLDER == <<"debug", 0>>
NoDir == <<"none", 0>>
NoPath == <<"none", 0, "none", 0, 0>>

ScratchDir(r) == <<"request", r>>
Join(d, role, r, k) == <<d[1], d[2], role, r, k>>
DirOf(p) == <<p[1], p[2]>>

\* File contents: a media file is the sequence of its segments, the empty
\* sequence is a file of size 0; a manifest is the sequence of listed paths.
Empty == <<>>
SourceClip(r, k) == << <<"src", r, k>> >>
TrimmedClip(r, k) == << <<"cut", r, k>> >>
AudioTrack(r) == << <<"aud", r, 0>> >>

Exists(fs, p) == p \in DOMAIN fs
Size(fs, p) == Len(fs[p])
WriteFile(fs, p, c) == [q \in (DOMAIN fs) \cup {p} |-> IF q = p THEN c ELSE fs[q]]
RemoveTree(fs, d) == [q \in {x \in DOMAIN fs : DirOf(x) # d} |-> fs[q]]

\* ---------------------------------------------------------------- requests
\* request.json is any JSON value.  The handler reads it piece by piece, and
\* a piece it has not read yet can be anything: the model picks each piece
\* at the statement that first uses it and keeps what has been read so far.
\*   shape  : "no_shots" ('shots' not in data), "empty" (len(shots) < 1),
\*            "shots" (a list of at least one shot)
\*   shots  : the shots enumerated so far, each by its kind:
\*            "malformed" (url or filename missing), "full" (no timestamp),
\*            "window" (a timestamp [start, end])
\*   audio  : the truth value of data.get('audio')
\*   scene  : "given" ('scene_id' in data; requests that give one give the
\*            same one, the case in which output names clash), "default"
RequestShapes == {"no_shots", "empty", "shots"}
ShotKinds == {"malformed", "full", "window"}
NoRequest == [shape |-> "unread", shots |-> <<>>, audio |-> "unread", scene |-> "unread"]

NoResponse == [status |-> 0, error |-> "none", file |-> NoPath]
Error(code, msg) == [status |-> code, error |-> msg, file |-> NoPath]

\* No call of process_video_with_timestamps under way.
NoTrimCall ==
    [pc |-> "none", start_time |-> 0, end_time |-> 0, input_duration |-> 0,
     target_duration |-> 0, ss |-> 0, t |-> 0, output_duration |-> 0, result |-> "none"]

VARIABLES
    pc,               \* pc[w]: where worker w is in process_scene
    rid,              \* rid[w]: id of the request w is handling (0: none yet)
    data,             \* data[w]: request.json
    folder,           \* folder[w]: request_data.folder of thread w (NoDir: unset)
    request_folder,   \* locals of process_scene
    i,
    temp_files,
    processed_files,
    list_file,
    shots_merged,
    output_filepath,
    raised,           \* raised[w]: message of the exception in flight ("none")
    resp,             \* resp[w]: the response of the handler
    dirs,             \* scratch directories that exist under UPLOAD_FOLDER
    files,            \* path -> content, for every file that exists
    nreq,             \* requests received so far
    created,          \* created[w]: paths the current request has written
    folderOf,         \* folderOf[r]: scratch directory handed to request r
    log,              \* log[w]: what the current request has logged, of
                      \*   "cleanup_error" (line 88), "audio_warning" (line 451),
                      \*   "remove_error" (lines 308, 313, 536, 541)
    tv                \* one call of process_video_with_timestamps, with its numbers

vars == <<pc, rid, data, folder, request_folder, i, temp_files, processed_files,
          list_file, shots_merged, output_filepath, raised, resp, dirs, files,
          nreq, created, folderOf, log, tv>>

locals == <<request_folder, i, temp_files, processed_files, list_file,
            shots_merged, output_filepath>>

Init ==
    /\ pc = [w \in Workers |-> "idle"]
    /\ rid = [w \in Workers |-> 0]
    /\ data = [w \in Workers |-> NoRequest]
    /\ folder = [w \in Workers |-> NoDir]
    /\ request_folder = [w \in Workers |-> NoDir]
    /\ i = [w \in Workers |-> 0]
    /\ temp_files = [w \in Workers |-> <<>>]
    /\ processed_files = [w \in Workers |-> <<>>]
    /\ list_file = [w \in Workers |-> NoPath]
    /\ shots_merged = [w \in Workers |-> NoPath]
    /\ output_filepath = [w \in Workers |-> NoPath]
    /\ raised = [w \in Workers |-> "none"]
    /\ resp = [w \in Workers |-> NoResponse]
    /\ dirs = {}
    /\ files = <<>>
    /\ nreq = 0
    /\ created = [w \in Workers |-> {}]
    /\ folderOf = [r \in 1..MaxRequests |-> NoDir]
    /\ log = [w \in Workers |-> {}]
    /\ tv = NoTrimCall

\* ------------------------------------------------------------ process_scene
\* A request reaches a worker thread that is not handling one (the WSGI
\* server's dispatch; the thread keeps its thread-local request_data), and
\* lines 319-328: the checks on 'shots' before anything is acquired.
\* Worker threads are interchangeable: the first request goes to the first.
FirstWorker == CHOOSE w \in Workers : TRUE

validate_no_length_check(shape) ==
    IF shape = "no_shots" THEN Error(400, "Missing required data. Need shots")
    ELSE NoResponse

\* Lines 320-328: the response that rejects the request, or none.
validate_shots(shape) ==
    IF shape = "no_shots" THEN Error(400, "Missing required data. Need shots")
    ELSE IF shape = "empty" THEN Error(400, "At least one shot is required")
    ELSE NoResponse

ReceiveRequest(w, shape) ==
    /\ pc[w] \in {"idle", "done"}
    /\ nreq < MaxRequests
    /\ nreq = 0 => w = FirstWorker
    /\ nreq' = nreq + 1
    /\ rid' = [rid EXCEPT ![w] = nreq + 1]
    /\ data' = [data EXCEPT ![w] = [NoRequest EXCEPT !.shape = shape]]
    /\ resp' = [resp EXCEPT ![w] = validate_shots(shape)]
    /\ pc' = [pc EXCEPT ![w] = IF validate_shots(shape) = NoResponse THEN "acquire" ELSE "done"]
    /\ created' = [created EXCEPT ![w] = {}]
    /\ log' = [log EXCEPT ![w] = {}]
    /\ UNCHANGED <<tv, folder, locals, raised, dirs, files, folderOf>>

\* get_request_folder (lines 72-80), called at line 331, and lines 332-334.
get_request_folder(w) ==
    IF folder[w] = NoDir
      THEN [attr |-> ScratchDir(rid[w]), made |-> {ScratchDir(rid[w])}]
      ELSE [attr |-> folder[w], made |-> {}]

AcquireFolder(w) ==
    /\ pc[w] = "acquire"
    /\ LET g == get_request_folder(w)
       IN /\ folder' = [folder EXCEPT ![w] = g.attr]
          /\ dirs' = dirs \cup g.made
          /\ request_folder' = [request_folder EXCEPT ![w] = g.attr]
          /\ folderOf' = [folderOf EXCEPT ![rid[w]] = g.attr]
    /\ i' = [i EXCEPT ![w] = 1]
    /\ pc' = [pc EXCEPT ![w] = "shot"]
    /\ UNCHANGED <<tv, log, rid, data, temp_files, processed_files, list_file, shots_merged,
                   output_filepath, raised, resp, files, nreq, created>>

\* download_from_s3 (lines 543-585) for asset k of request r (k = 0: the
\* audio).  The URL rewriting decides only which address is asked; the
\* answer is the remote side's: "http_error" (raise_for_status or the
\* transfer raises), "empty_body" (content_length == 0), "ok".
FetchOutcomes == {"http_error", "empty_body", "ok"}
DebugDownload(r, k) == Join(DEBUG_FOLDER, "downloaded", r, k)

download_from_s3(fs, r, k, content, outcome) ==
    IF outcome = "http_error"
      THEN [raised |-> "RequestException", content |-> Empty, fs |-> fs, wrote |-> {}]
    ELSE IF outcome = "empty_body"
      THEN [raised |-> "Downloaded file is empty", content |-> Empty, fs |-> fs, wrote |-> {}]
    ELSE [raised |-> "none", content |-> content,
          fs |-> WriteFile(fs, DebugDownload(r, k), content),
          wrote |-> {DebugDownload(r, k)}]

\* open(path, 'wb') and write: FileNotFoundError when the directory is gone.
open_write(fs, ds, p, content) ==
    IF DirOf(p) \in ds \cup {OUTPUT_FOLDER, DEBUG_FOLDER}
      THEN [raised |-> "none", fs |-> WriteFile(fs, p, content), wrote |-> {p}]
      ELSE [raised |-> "FileNotFoundError", fs |-> fs, wrote |-> {}]

\* shutil.copy2(src, dst).
copy2(fs, ds, src, dst) ==
    IF Exists(fs, src) THEN open_write(fs, ds, dst, fs[src])
    ELSE [raised |-> "FileNotFoundError", fs |-> fs, wrote |-> {}]

EndOfShotsBeforeTrim(w) ==
    /\ pc[w] = "trim" \/ (pc[w] = "shot" /\ i[w] > 1)
    /\ pc' = [pc EXCEPT ![w] = "manifest"]
    /\ UNCHANGED <<tv, log, rid, data, folder, locals, raised, resp, dirs, files, nreq,
                   created, folderOf>>

\* Lines 338-357, loop exhausted: enumerate(shots) has no further shot.
\* The list has at least one shot (line 327).
EndOfShots(w) ==
    /\ pc[w] = "shot"
    /\ i[w] > 1
    /\ pc' = [pc EXCEPT ![w] = "manifest"]
    /\ UNCHANGED <<tv, log, rid, data, folder, locals, raised, resp, dirs, files, nreq,
                   created, folderOf>>

\* Lines 338-367: the next shot of the list (i counts shots from 1): check
\* its fields, download it and save it in the request folder.
TempInput(w) == Join(request_folder[w], "input", rid[w], i[w])
TempOutput(w) == Join(request_folder[w], "processed", rid[w], i[w])

has_url_and_filename_always(kind) == TRUE

\* Line 339: all(k in shot for k in ['url', 'filename']).
has_url_and_filename(kind) == kind # "malformed"

FetchShot(w, kind, outcome) ==
    /\ pc[w] = "shot"
    /\ i[w] <= MaxShots
    /\ data' = [data EXCEPT ![w].shots = Append(@, kind)]
    /\ IF ~has_url_and_filename(kind)
         THEN /\ outcome = "ok"
              /\ resp' = [resp EXCEPT ![w] = Error(400, "Invalid shot data structure")]
              /\ pc' = [pc EXCEPT ![w] = "cleanup"]
              /\ UNCHANGED <<files, temp_files, created, raised>>
         ELSE /\ resp' = resp
              /\ LET dl == download_from_s3(files, rid[w], i[w], SourceClip(rid[w], i[w]), outcome)
                     sv == open_write(dl.fs, dirs, TempInput(w), dl.content)
                 IN IF dl.raised # "none"
                      THEN /\ raised' = [raised EXCEPT ![w] = dl.raised]
                           /\ pc' = [pc EXCEPT ![w] = "cleanup"]
                           /\ UNCHANGED <<files, temp_files, created>>
                      ELSE /\ files' = sv.fs
                           /\ created' = [created EXCEPT ![w] = @ \cup dl.wrote \cup sv.wrote]
                           /\ IF sv.raised # "none"
                                THEN /\ raised' = [raised EXCEPT ![w] = sv.raised]
                                     /\ pc' = [pc EXCEPT ![w] = "cleanup"]
                                     /\ UNCHANGED temp_files
                                ELSE /\ temp_files' = [temp_files EXCEPT ![w] = Append(@, TempInput(w))]
                                     /\ pc' = [pc EXCEPT ![w] = "trim"]
                                     /\ UNCHANGED raised
    /\ UNCHANGED <<tv, log, rid, folder, request_folder, i, processed_files, list_file,
                   shots_merged, output_filepath, dirs, nreq, folderOf>>

\* process_video_with_timestamps (lines 587-677) as process_scene sees it:
\* what it leaves on disk and whether it raises.  The outcomes are those of
\* ffprobe and ffmpeg that the code tells apart:
\*   "probe_error"    ffprobe fails, check_output or float() raises (603)
\*   "encoder_error"  returncode != 0, nothing written (636-638)
\*   "encoder_partial" returncode != 0, output file left behind, empty
\*   "no_output"      returncode == 0, no output file (641-642)
\*   "empty_output"   returncode == 0, output file of size 0 (644-646)
\*   "ok"             a non-empty output; it is copied to DEBUG_FOLDER (650-655)
TrimOutcomes == {"probe_error", "encoder_error", "encoder_partial", "no_output",
                 "empty_output", "ok"}
DebugProcessed(r, k) == Join(DEBUG_FOLDER, "processed", r, k)

process_video_with_timestamps(fs, input_file, output_file, r, k, outcome) ==
    IF outcome = "probe_error"
      THEN [raised |-> "ffprobe failed", fs |-> fs, wrote |-> {}]
    ELSE IF outcome = "encoder_error"
      THEN [raised |-> "Failed to process video", fs |-> fs, wrote |-> {}]
    ELSE IF outcome = "encoder_partial"
      THEN [raised |-> "Failed to process video",
            fs |-> WriteFile(fs, output_file, Empty), wrote |-> {output_file}]
    ELSE IF outcome = "no_output"
      THEN [raised |-> "Output file was not created", fs |-> fs, wrote |-> {}]
    ELSE IF outcome = "empty_output"
      THEN [raised |-> "Output file is empty",
            fs |-> WriteFile(fs, output_file, Empty), wrote |-> {output_file}]
    ELSE [raised |-> "none",
          fs |-> WriteFile(WriteFile(fs, output_file, TrimmedClip(r, k)),
                           DebugProcessed(r, k), TrimmedClip(r, k)),
          wrote |-> {output_file, DebugProcessed(r, k)}]

has_timestamp_always(kind) == TRUE

\* Lines 350 and 372: "if timestamp:", the truth value of shot.get('timestamp').
has_timestamp(kind) == kind = "window"

TrimShotSwallowsError(w, outcome) ==
    /\ pc[w] = "trim"
    /\ data[w].shots[i[w]] = "full" => outcome = "ok"
    /\ LET tr == IF has_timestamp(data[w].shots[i[w]])
                   THEN process_video_with_timestamps(files, TempInput(w), TempOutput(w),
                                                      rid[w], i[w], outcome)
                   ELSE copy2(files, dirs, TempInput(w), TempOutput(w))
       IN /\ files' = tr.fs
          /\ created' = [created EXCEPT ![w] = @ \cup tr.wrote]
          /\ processed_files' = [processed_files EXCEPT
                                    ![w] = IF tr.raised # "none" THEN @
                                           ELSE Append(@, TempOutput(w))]
          /\ i' = [i EXCEPT ![w] = @ + 1]
          /\ pc' = [pc EXCEPT ![w] = "shot"]
    /\ UNCHANGED <<tv, log, rid, data, folder, request_folder, temp_files, list_file,
                   shots_merged, output_filepath, resp, dirs, nreq, folderOf, raised>>

\* Lines 369-380: trim the shot, or copy it when it has no timestamp.
TrimShot(w, outcome) ==
    /\ pc[w] = "trim"
    /\ data[w].shots[i[w]] = "full" => outcome = "ok"
    /\ LET tr == IF has_timestamp(data[w].shots[i[w]])
                   THEN process_video_with_timestamps(files, TempInput(w), TempOutput(w),
                                                      rid[w], i[w], outcome)
                   ELSE copy2(files, dirs, TempInput(w), TempOutput(w))
       IN /\ files' = tr.fs
          /\ created' = [created EXCEPT ![w] = @ \cup tr.wrote]
          /\ IF tr.raised # "none"
               THEN /\ raised' = [raised EXCEPT ![w] = tr.raised]
                    /\ pc' = [pc EXCEPT ![w] = "cleanup"]
                    /\ UNCHANGED <<processed_files, i>>
               ELSE /\ processed_files' = [processed_files EXCEPT ![w] = Append(@, TempOutput(w))]
                    /\ i' = [i EXCEPT ![w] = @ + 1]
                    /\ pc' = [pc EXCEPT ![w] = "shot"]
                    /\ UNCHANGED raised
    /\ UNCHANGED <<tv, log, rid, data, folder, request_folder, temp_files, list_file,
                   shots_merged, output_filepath, resp, dirs, nreq, folderOf>>

\* Lines 382-396: name the merged file and write the manifest, one line per
\* processed file, in the order of processed_files.
RECURSIVE AllExist(_, _)
AllExist(fs, paths) ==
    IF paths = <<>> THEN TRUE
    ELSE Exists(fs, Head(paths)) /\ AllExist(fs, Tail(paths))

ManifestReversed(paths) == [k \in 1..Len(paths) |-> paths[Len(paths) + 1 - k]]

Manifest(paths) == paths

WriteManifest(w) ==
    /\ pc[w] = "manifest"
    /\ LET merged == Join(request_folder[w], "merged", rid[w], 0)
           lf == Join(request_folder[w], "shots_list.txt", 0, 0)
           op == open_write(files, dirs, lf, Empty)
       IN /\ shots_merged' = [shots_merged EXCEPT ![w] = merged]
          /\ list_file' = [list_file EXCEPT ![w] = lf]
          /\ created' = [created EXCEPT ![w] = @ \cup op.wrote]
          /\ IF op.raised # "none"
               THEN /\ files' = op.fs
                    /\ raised' = [raised EXCEPT ![w] = op.raised]
                    /\ pc' = [pc EXCEPT ![w] = "cleanup"]
               ELSE IF ~AllExist(files, processed_files[w])
                      THEN /\ files' = op.fs
                           /\ raised' = [raised EXCEPT ![w] = "Processed file not found"]
                           /\ pc' = [pc EXCEPT ![w] = "cleanup"]
                      ELSE /\ files' = WriteFile(files, lf, Manifest(processed_files[w]))
                           /\ pc' = [pc EXCEPT ![w] = "concat"]
                           /\ UNCHANGED raised
    /\ UNCHANGED <<tv, log, rid, data, folder, request_folder, i, temp_files, processed_files,
                   output_filepath, resp, dirs, nreq, folderOf>>

\* What ffmpeg's concat demuxer produces from a manifest: the listed files
\* one after the other, in the order of the manifest.
RECURSIVE Concatenation(_, _)
Concatenation(fs, paths) ==
    IF paths = <<>> THEN <<>>
    ELSE fs[Head(paths)] \o Concatenation(fs, Tail(paths))

\* Lines 398-422: run the concat encoder on the manifest, then branch on
\* audio_url.  Outcomes of the encoder: "encoder_error" (returncode != 0),
\* and with returncode == 0 "empty_output" (nothing was encoded) or "ok".
ConcatOutcomes == {"encoder_error", "empty_output", "ok"}

ConcatShots(w, outcome, audio) ==
    /\ pc[w] = "concat"
    /\ outcome = "ok" => /\ Exists(files, list_file[w])
                         /\ AllExist(files, files[list_file[w]])
    /\ IF outcome = "encoder_error"
         THEN /\ raised' = [raised EXCEPT ![w] = "Failed to merge videos"]
              /\ pc' = [pc EXCEPT ![w] = "cleanup"]
              /\ audio = FALSE
              /\ UNCHANGED <<files, created, data>>
         ELSE /\ files' = WriteFile(files, shots_merged[w],
                                     IF outcome = "empty_output" THEN Empty
                                     ELSE Concatenation(files, files[list_file[w]]))
              /\ created' = [created EXCEPT ![w] = @ \cup {shots_merged[w]}]
              /\ data' = [data EXCEPT ![w].audio = IF audio THEN "given" ELSE "absent"]
              /\ pc' = [pc EXCEPT ![w] = IF audio THEN "fetch_audio" ELSE "copy"]
              /\ UNCHANGED raised
    /\ UNCHANGED <<tv, log, rid, folder, locals, resp, dirs, nreq, folderOf>>

\* scene_id (line 325) names the output: the id the client gave, or a uuid.
SceneChoices == {"given", "default"}
OutputPath(r, scene) == Join(OUTPUT_FOLDER, "scene", IF scene = "given" THEN 0 ELSE r, 0)
ReadScene(w, scene) == data[w].scene \in {"unread", scene}

\* Lines 455-459: no audio, the merged video is the final output.
CopyMerged(w, scene) ==
    /\ pc[w] = "copy"
    /\ ReadScene(w, scene)
    /\ data' = [data EXCEPT ![w].scene = scene]
    /\ output_filepath' = [output_filepath EXCEPT ![w] = OutputPath(rid[w], scene)]
    /\ LET cp == copy2(files, dirs, shots_merged[w], OutputPath(rid[w], scene))
       IN /\ files' = cp.fs
          /\ created' = [created EXCEPT ![w] = @ \cup cp.wrote]
          /\ raised' = [raised EXCEPT ![w] = cp.raised]
          /\ pc' = [pc EXCEPT ![w] = IF cp.raised # "none" THEN "cleanup" ELSE "check"]
    /\ UNCHANGED <<tv, log, rid, folder, request_folder, i, temp_files, processed_files, list_file,
                   shots_merged, resp, dirs, nreq, folderOf>>

\* Lines 423-428: download the audio and save it in the request folder.
AudioFile(w) == Join(request_folder[w], "audio", rid[w], 0)

FetchAudio(w, outcome) ==
    /\ pc[w] = "fetch_audio"
    /\ LET dl == download_from_s3(files, rid[w], 0, AudioTrack(rid[w]), outcome)
           sv == open_write(dl.fs, dirs, AudioFile(w), dl.content)
       IN IF dl.raised # "none"
            THEN /\ pc' = [pc EXCEPT ![w] = "fallback"]
                 /\ UNCHANGED <<files, temp_files, created>>
            ELSE /\ files' = sv.fs
                 /\ created' = [created EXCEPT ![w] = @ \cup dl.wrote \cup sv.wrote]
                 /\ IF sv.raised # "none"
                      THEN /\ pc' = [pc EXCEPT ![w] = "fallback"]
                           /\ UNCHANGED temp_files
                      ELSE /\ temp_files' = [temp_files EXCEPT ![w] = Append(@, AudioFile(w))]
                           /\ pc' = [pc EXCEPT ![w] = "mux"]
    /\ UNCHANGED <<tv, log, rid, data, folder, request_folder, i, processed_files, list_file,
                   shots_merged, output_filepath, raised, resp, dirs, nreq, folderOf>>

\* Lines 430-449: mux the audio into the merged video, straight into the
\* output path.  Outcomes of the encoder: "encoder_error" (returncode != 0,
\* output untouched), "encoder_partial" (returncode != 0, output truncated),
\* and with returncode == 0 "empty_output" (nothing was encoded) or "ok".
MuxOutcomes == {"encoder_error", "encoder_partial", "empty_output", "ok"}
Mux(video, audio) == video \o audio

MuxAudio(w, outcome, scene) ==
    /\ pc[w] = "mux"
    /\ ReadScene(w, scene)
    /\ outcome = "ok" => /\ Exists(files, shots_merged[w])
                         /\ Size(files, shots_merged[w]) > 0
    /\ data' = [data EXCEPT ![w].scene = scene]
    /\ output_filepath' = [output_filepath EXCEPT ![w] = OutputPath(rid[w], scene)]
    /\ LET out == OutputPath(rid[w], scene)
       IN IF outcome = "encoder_error"
            THEN UNCHANGED <<files, created>>
            ELSE /\ files' = WriteFile(files, out,
                                       IF outcome = "ok"
                                         THEN Mux(files[shots_merged[w]], files[AudioFile(w)])
                                         ELSE Empty)
                 /\ created' = [created EXCEPT ![w] = @ \cup {out}]
    /\ pc' = [pc EXCEPT ![w] = IF outcome \in {"encoder_error", "encoder_partial"}
                                 THEN "fallback" ELSE "check"]
    /\ UNCHANGED <<tv, log, rid, folder, request_folder, i, temp_files, processed_files, list_file,
                   shots_merged, raised, resp, dirs, nreq, folderOf>>

AudioFallbackReraises(w, scene) ==
    /\ pc[w] = "fallback"
    /\ ReadScene(w, scene)
    /\ data' = [data EXCEPT ![w].scene = scene]
    /\ raised' = [raised EXCEPT ![w] = "Failed to merge audio"]
    /\ pc' = [pc EXCEPT ![w] = "cleanup"]
    /\ log' = [log EXCEPT ![w] = @ \cup {"audio_warning"}]
    /\ UNCHANGED <<tv, rid, folder, locals, resp, dirs, files, nreq, created, folderOf>>

\* Lines 450-454: any exception of the audio step is logged and the merged
\* video is copied to the output path instead.
AudioFallback(w, scene) ==
    /\ pc[w] = "fallback"
    /\ ReadScene(w, scene)
    /\ data' = [data EXCEPT ![w].scene = scene]
    /\ output_filepath' = [output_filepath EXCEPT ![w] = OutputPath(rid[w], scene)]
    /\ LET cp == copy2(files, dirs, shots_merged[w], OutputPath(rid[w], scene))
       IN /\ files' = cp.fs
          /\ created' = [created EXCEPT ![w] = @ \cup cp.wrote]
          /\ raised' = [raised EXCEPT ![w] = cp.raised]
          /\ pc' = [pc EXCEPT ![w] = IF cp.raised # "none" THEN "cleanup" ELSE "check"]
    /\ log' = [log EXCEPT ![w] = @ \cup {"audio_warning"}]
    /\ UNCHANGED <<tv, rid, folder, request_folder, i, temp_files, processed_files, list_file,
                   shots_merged, resp, dirs, nreq, folderOf>>

\* Lines 461-465: the final check, then send_file.
FinalOutputExists(fs, p) == Exists(fs, p)

FinalOutputOk(fs, p) == Exists(fs, p) /\ Size(fs, p) # 0

CheckOutput(w) ==
    /\ pc[w] = "check"
    /\ IF FinalOutputOk(files, output_filepath[w])
         THEN /\ resp' = [resp EXCEPT ![w] = [status |-> 200, error |-> "none",
                                               file |-> output_filepath[w]]]
              /\ UNCHANGED raised
         ELSE /\ raised' = [raised EXCEPT
                              ![w] = "Final output file is empty or does not exist"]
              /\ UNCHANGED resp
    /\ pc' = [pc EXCEPT ![w] = "cleanup"]
    /\ UNCHANGED <<tv, log, rid, data, folder, locals, dirs, files, nreq, created, folderOf>>

\* cleanup_request_folder (lines 82-88): rmtree either removes the tree or
\* raises, and then the error is logged and the tree stays.
RmtreeOutcomes == {"ok", "error"}

cleanup_without_rmtree(w, fs, ds, outcome) == [fs |-> fs, dirs |-> ds]

cleanup_request_folder(w, fs, ds, outcome) ==
    IF folder[w] # NoDir /\ folder[w] \in ds /\ outcome = "ok"
      THEN [fs |-> RemoveTree(fs, folder[w]), dirs |-> ds \ {folder[w]}]
      ELSE [fs |-> fs, dirs |-> ds]

ResponseEscalatesRmtree(w, outcome) ==
    IF outcome = "error" THEN Error(500, "rmtree failed")
    ELSE IF raised[w] # "none" THEN Error(500, raised[w])
    ELSE resp[w]

\* Lines 465-473: what the handler returns past the finally block: the 500
\* of the outer except for an exception in flight, else the response of the
\* return statement that was executed.  rmtree's own failure is caught at
\* lines 87-88 and never reaches the handler.
ResponseAtReturn(w, outcome) ==
    IF raised[w] # "none" THEN Error(500, raised[w]) ELSE resp[w]

CleanupNeverReturns(w, outcome) ==
    /\ pc[w] = "cleanup"
    /\ LET c == cleanup_request_folder(w, files, dirs, outcome)
       IN /\ files' = c.fs
          /\ dirs' = c.dirs
    /\ UNCHANGED <<tv, log, pc, rid, data, folder, locals, raised, resp, nreq, created,
                   folderOf>>

\* Lines 467-473: the finally block, and the outer except that turns an
\* exception in flight into the 500 response.  The handler returns: its
\* locals and the request body are gone; the response, the log and the
\* shape of the request stay.
Cleanup(w, outcome) ==
    /\ pc[w] = "cleanup"
    /\ outcome = "error" => folder[w] \in dirs
    /\ LET c == cleanup_request_folder(w, files, dirs, outcome)
       IN /\ files' = c.fs
          /\ dirs' = c.dirs
    /\ resp' = [resp EXCEPT ![w] = ResponseAtReturn(w, outcome)]
    /\ raised' = [raised EXCEPT ![w] = "none"]
    /\ pc' = [pc EXCEPT ![w] = "done"]
    /\ data' = [data EXCEPT ![w] = [NoRequest EXCEPT !.shape = data[w].shape]]
    /\ request_folder' = [request_folder EXCEPT ![w] = NoDir]
    /\ i' = [i EXCEPT ![w] = 0]
    /\ temp_files' = [temp_files EXCEPT ![w] = <<>>]
    /\ processed_files' = [processed_files EXCEPT ![w] = <<>>]
    /\ list_file' = [list_file EXCEPT ![w] = NoPath]
    /\ shots_merged' = [shots_merged EXCEPT ![w] = NoPath]
    /\ output_filepath' = [output_filepath EXCEPT ![w] = NoPath]
    /\ log' = [log EXCEPT ![w] = IF outcome = "error" THEN @ \cup {"cleanup_error"} ELSE @]
    /\ UNCHANGED <<tv, rid, folder, nreq, created, folderOf>>

\* ------------------------------------- process_video_with_timestamps, alone
\* The same function with its numbers: the window, the probed duration, the
\* arguments handed to the encoder and the duration of what comes out.
StartTimes == (0 - 1)..MaxTime
EndTimes == 0..(MaxTime + 2)
Durations == 1..MaxTime

Min(a, b) == IF a < b THEN a ELSE b

TargetDurationNoClamp(start_time, end_time, input_duration) == end_time - start_time

\* Lines 606-613.
TargetDuration(start_time, end_time, input_duration) ==
    IF end_time - start_time > input_duration
      THEN input_duration
      ELSE end_time - start_time

EncoderArgsNoSeek(start_time, target_duration) == [ss |-> 0, t |-> target_duration]

\* Lines 617-631: '-ss' str(start_time) ... '-t' str(target_duration).
EncoderArgs(start_time, target_duration) == [ss |-> start_time, t |-> target_duration]

\* What the encoder can deliver for -ss ss -t t from a source of duration d:
\* at most t seconds, and at most the d - ss seconds left after the offset
\* (a negative offset, when the encoder accepts it, is the start).
Delivered(ss, t, d) ==
    LET from == IF ss < 0 THEN 0 ELSE ss
    IN IF t <= 0 \/ from >= d THEN 0 ELSE Min(t, d - from)

InitTrim ==
    /\ pc = [w \in Workers |-> "idle"]
    /\ rid = [w \in Workers |-> 0]
    /\ data = [w \in Workers |-> NoRequest]
    /\ folder = [w \in Workers |-> NoDir]
    /\ request_folder = [w \in Workers |-> NoDir]
    /\ i = [w \in Workers |-> 0]
    /\ temp_files = [w \in Workers |-> <<>>]
    /\ processed_files = [w \in Workers |-> <<>>]
    /\ list_file = [w \in Workers |-> NoPath]
    /\ shots_merged = [w \in Workers |-> NoPath]
    /\ output_filepath = [w \in Workers |-> NoPath]
    /\ raised = [w \in Workers |-> "none"]
    /\ resp = [w \in Workers |-> NoResponse]
    /\ dirs = {}
    /\ files = <<>>
    /\ nreq = 0
    /\ created = [w \in Workers |-> {}]
    /\ folderOf = [r \in 1..MaxRequests |-> NoDir]
    /\ log = [w \in Workers |-> {}]
    /\ \E s \in StartTimes, e \in EndTimes :
           tv = [NoTrimCall EXCEPT !.pc = "probe", !.start_time = s, !.end_time = e]

mainVars == <<pc, rid, data, folder, request_folder, i, temp_files, processed_files,
              list_file, shots_merged, output_filepath, raised, resp, dirs, files,
              nreq, created, folderOf, log>>

\* Lines 596-613: probe the input, compute the duration to extract.
ProbeFails ==
    /\ tv.pc = "probe"
    /\ tv' = [tv EXCEPT !.pc = "raised", !.result = "probe_error"]
    /\ UNCHANGED mainVars

ProbeAndTarget(d) ==
    /\ tv.pc = "probe"
    /\ tv' = [tv EXCEPT !.pc = "encode", !.input_duration = d,
                        !.target_duration = TargetDuration(tv.start_time, tv.end_time, d)]
    /\ UNCHANGED mainVars

\* Lines 615-638: run the encoder.  It may fail whatever it is given, and it
\* cannot produce a non-empty output when there is nothing to deliver.
RunEncoder(outcome) ==
    /\ tv.pc = "encode"
    /\ outcome \in TrimOutcomes \ {"probe_error"}
    /\ LET a == EncoderArgs(tv.start_time, tv.target_duration)
           out == Delivered(a.ss, a.t, tv.input_duration)
       IN /\ outcome = "ok" => out > 0
          /\ tv' = [tv EXCEPT !.ss = a.ss, !.t = a.t,
                              !.output_duration = IF outcome = "ok" THEN out ELSE 0,
                              !.result = outcome,
                              !.pc = IF outcome \in {"encoder_error", "encoder_partial"}
                                       THEN "raised" ELSE "verify"]
    /\ UNCHANGED mainVars

\* Lines 640-673: the output must exist and be non-empty; the duration check
\* is advisory.
VerifyOutput ==
    /\ tv.pc = "verify"
    /\ tv' = [tv EXCEPT !.pc = IF tv.result = "ok" THEN "returned" ELSE "raised"]
    /\ UNCHANGED mainVars

NextTrim ==
    \/ ProbeFails
    \/ \E d \in Durations : ProbeAndTarget(d)
    \/ \E outcome \in TrimOutcomes : RunEncoder(outcome)
    \/ VerifyOutput

SpecTrim == InitTrim /\ [][NextTrim]_vars

Next ==
    \E w \in Workers :
        \/ \E shape \in RequestShapes : ReceiveRequest(w, shape)
        \/ AcquireFolder(w)
        \/ EndOfShots(w)
        \/ \E kind \in ShotKinds, outcome \in FetchOutcomes : FetchShot(w, kind, outcome)
        \/ \E outcome \in TrimOutcomes : TrimShot(w, outcome)
        \/ WriteManifest(w)
        \/ \E outcome \in ConcatOutcomes, audio \in BOOLEAN : ConcatShots(w, outcome, audio)
        \/ \E scene \in SceneChoices : CopyMerged(w, scene)
        \/ \E outcome \in FetchOutcomes : FetchAudio(w, outcome)
        \/ \E outcome \in MuxOutcomes, scene \in SceneChoices : MuxAudio(w, outcome, scene)
        \/ \E scene \in SceneChoices : AudioFallback(w, scene)
        \/ CheckOutput(w)
        \/ \E outcome \in RmtreeOutcomes : Cleanup(w, outcome)

Spec == Init /\ [][Next]_vars

\* The steps of the handler that worker w is running.  Every external call
\* returns (with success or failure), so a handler that can take a step
\* eventually takes one; nothing obliges a client to send a request.
HandlerStep(w) ==
    \/ AcquireFolder(w)
    \/ EndOfShots(w)
    \/ \E kind \in ShotKinds, outcome \in FetchOutcomes : FetchShot(w, kind, outcome)
    \/ \E outcome \in TrimOutcomes : TrimShot(w, outcome)
    \/ WriteManifest(w)
    \/ \E outcome \in ConcatOutcomes, audio \in BOOLEAN : ConcatShots(w, outcome, audio)
    \/ \E scene \in SceneChoices : CopyMerged(w, scene)
    \/ \E outcome \in FetchOutcomes : FetchAudio(w, outcome)
    \/ \E outcome \in MuxOutcomes, scene \in SceneChoices : MuxAudio(w, outcome, scene)
    \/ \E scene \in SceneChoices : AudioFallback(w, scene)
    \/ CheckOutput(w)
    \/ \E outcome \in RmtreeOutcomes : Cleanup(w, outcome)

\* The service behind a single worker thread: requests are handled one after
\* the other, each to its end.
ServeOne ==
    \/ \E shape \in RequestShapes : ReceiveRequest(FirstWorker, shape)
    \/ HandlerStep(FirstWorker)

SpecLive == Init /\ [][ServeOne]_vars /\ WF_vars(HandlerStep(FirstWorker))
\* ------------------------------- merge_videos, merge_scenes and merge_audio
\* The three merge handlers keep their temporary files directly in
\* UPLOAD_FOLDER, under uuid names, and their manifest under a fixed name
\* there.  A worker runs one handler at a time; pc, data, i, temp_files,
\* processed_files, list_file, output_filepath, raised and resp are then
\* the handler's position, request and locals.
\*   endpoint : the route of the request
\*   key      : "valid" (X-API-Key equals API_KEY), "invalid" (missing or
\*              different)
\*   shape    : "no_files" (no body, or 'files' / 'scenes' not in it),
\*              "empty" (an empty list), "files"
\*   items    : the entries enumerated so far, each by its kind
Endpoints == {"merge_videos", "merge_scenes", "merge_audio"}
KeyChoices == {"valid", "invalid"}
MergeShapes == {"no_files", "empty", "files"}
NoMergeRequest == [endpoint |-> "none", key |-> "unread", shape |-> "unread", items |-> <<>>]

\* Entries of merge_videos and merge_scenes by the keys they carry:
\* "no_url" (no 'url'), "url_filename" ('url' and 'filename', no
\* 'timestamp'), "window" ('url', 'filename' and 'timestamp').
EntryKinds == {"no_url", "url_filename", "window"}

InitMerge ==
    /\ pc = [w \in Workers |-> "idle"]
    /\ rid = [w \in Workers |-> 0]
    /\ data = [w \in Workers |-> NoMergeRequest]
    /\ folder = [w \in Workers |-> NoDir]
    /\ request_folder = [w \in Workers |-> NoDir]
    /\ i = [w \in Workers |-> 0]
    /\ temp_files = [w \in Workers |-> <<>>]
    /\ processed_files = [w \in Workers |-> <<>>]
    /\ list_file = [w \in Workers |-> NoPath]
    /\ shots_merged = [w \in Workers |-> NoPath]
    /\ output_filepath = [w \in Workers |-> NoPath]
    /\ raised = [w \in Workers |-> "none"]
    /\ resp = [w \in Workers |-> NoResponse]
    /\ dirs = {}
    /\ files = <<>>
    /\ nreq = 0
    /\ created = [w \in Workers |-> {}]
    /\ folderOf = [r \in 1..MaxRequests |-> NoDir]
    /\ log = [w \in Workers |-> {}]
    /\ tv = NoTrimCall

\* Variables that only process_scene uses.
sceneVars == <<tv, folder, request_folder, shots_merged, dirs, folderOf>>

\* api_key_required decorates merge_videos (lines 120-126, 229); merge_audio
\* checks the header itself (131-132); merge_scenes has no check (475-477).
api_key_checked(endpoint) == endpoint \in {"merge_videos", "merge_audio"}

validate_merge_ignores_key(endpoint, key, shape) ==
    IF shape = "no_files" THEN Error(400, "No file data in the request")
    ELSE IF shape = "empty" THEN Error(400, "At least one file is required")
    ELSE NoResponse

\* Lines 131-140, 237-243, 482-488: the response that rejects the request
\* before any entry is looked at, or none.
validate_merge(endpoint, key, shape) ==
    IF api_key_checked(endpoint) /\ key = "invalid" THEN Error(401, "Invalid API key")
    ELSE IF shape = "no_files" THEN Error(400, "No file data in the request")
    ELSE IF shape = "empty" THEN Error(400, "At least one file is required")
    ELSE NoResponse

ReceiveMerge(w, endpoint, key, shape) ==
    /\ pc[w] \in {"idle", "done"}
    /\ nreq < MaxRequests
    /\ nreq = 0 => w = FirstWorker
    /\ ~api_key_checked(endpoint) => key = "valid"
    /\ key = "invalid" => shape = "files"
    /\ nreq' = nreq + 1
    /\ rid' = [rid EXCEPT ![w] = nreq + 1]
    /\ data' = [data EXCEPT ![w] = [endpoint |-> endpoint, key |-> key,
                                     shape |-> IF key = "invalid" THEN "unread" ELSE shape,
                                     items |-> <<>>]]
    /\ resp' = [resp EXCEPT ![w] = validate_merge(endpoint, key, shape)]
    /\ pc' = [pc EXCEPT ![w] = IF validate_merge(endpoint, key, shape) # NoResponse THEN "done"
                                 ELSE IF endpoint = "merge_audio" THEN "ma_file"
                                 ELSE "mv_file"]
    /\ i' = [i EXCEPT ![w] = IF validate_merge(endpoint, key, shape) # NoResponse THEN 0 ELSE 1]
    /\ created' = [created EXCEPT ![w] = {}]
    /\ log' = [log EXCEPT ![w] = {}]
    /\ UNCHANGED <<sceneVars, temp_files, processed_files, list_file, output_filepath,
                   raised, files>>

\* Lines 247-248 and 492-493: the keys an entry must carry.
has_required_keys(endpoint, kind) ==
    IF endpoint = "merge_videos" THEN kind = "window" ELSE kind # "no_url"

MergeInput(w) == Join(UPLOAD_FOLDER, "input", rid[w], i[w])
MergeOutput(w) == Join(UPLOAD_FOLDER, "processed", rid[w], i[w])

\* Lines 246-261 and 491-501: the next entry of the list: check its keys,
\* download it and save it in UPLOAD_FOLDER.  merge_scenes then goes on to
\* the next entry, merge_videos trims this one first.
MergeFetch(w, kind, outcome) ==
    /\ pc[w] = "mv_file"
    /\ i[w] <= MaxShots
    /\ data' = [data EXCEPT ![w].items = Append(@, kind)]
    /\ IF ~has_required_keys(data[w].endpoint, kind)
         THEN /\ outcome = "ok"
              /\ resp' = [resp EXCEPT ![w] = Error(400, "Invalid file data structure")]
              /\ pc' = [pc EXCEPT ![w] = "mv_cleanup"]
              /\ UNCHANGED <<files, temp_files, created, raised, i>>
         ELSE /\ resp' = resp
              /\ LET dl == download_from_s3(files, rid[w], i[w], SourceClip(rid[w], i[w]), outcome)
                     sv == open_write(dl.fs, {UPLOAD_FOLDER}, MergeInput(w), dl.content)
                 IN IF dl.raised # "none"
                      THEN /\ raised' = [raised EXCEPT ![w] = dl.raised]
                           /\ pc' = [pc EXCEPT ![w] = "mv_cleanup"]
                           /\ UNCHANGED <<files, temp_files, created, i>>
                      ELSE /\ files' = sv.fs
                           /\ created' = [created EXCEPT ![w] = @ \cup dl.wrote \cup sv.wrote]
                           /\ temp_files' = [temp_files EXCEPT ![w] = Append(@, MergeInput(w))]
                           /\ UNCHANGED raised
                           /\ IF data[w].endpoint = "merge_videos"
                                THEN /\ pc' = [pc EXCEPT ![w] = "mv_trim"]
                                     /\ UNCHANGED i
                                ELSE /\ pc' = pc
                                     /\ i' = [i EXCEPT ![w] = @ + 1]
    /\ UNCHANGED <<sceneVars, log, rid, processed_files, list_file, output_filepath, nreq>>

\* Lines 263-266: trim the downloaded file into a second uuid name.
MergeTrim(w, outcome) ==
    /\ pc[w] = "mv_trim"
    /\ LET tr == process_video_with_timestamps(files, MergeInput(w), MergeOutput(w),
                                                rid[w], i[w], outcome)
       IN /\ files' = tr.fs
          /\ created' = [created EXCEPT ![w] = @ \cup tr.wrote]
          /\ IF tr.raised # "none"
               THEN /\ raised' = [raised EXCEPT ![w] = tr.raised]
                    /\ pc' = [pc EXCEPT ![w] = "mv_cleanup"]
                    /\ UNCHANGED <<processed_files, i>>
               ELSE /\ processed_files' = [processed_files EXCEPT ![w] = Append(@, MergeOutput(w))]
                    /\ i' = [i EXCEPT ![w] = @ + 1]
                    /\ pc' = [pc EXCEPT ![w] = "mv_file"]
                    /\ UNCHANGED raised
    /\ UNCHANGED <<sceneVars, log, rid, data, temp_files, list_file, output_filepath, resp,
                   nreq>>

\* The loop is exhausted; the list has at least one entry (lines 242, 487).
MergeEnd(w) ==
    /\ pc[w] = "mv_file"
    /\ i[w] > 1
    /\ pc' = [pc EXCEPT ![w] = "mv_manifest"]
    /\ UNCHANGED <<sceneVars, log, rid, data, i, temp_files, processed_files, list_file,
                   output_filepath, raised, resp, files, nreq, created>>

\* Lines 273 and 508: the manifest has one fixed name per handler.
ListFile(endpoint) ==
    Join(UPLOAD_FOLDER,
         IF endpoint = "merge_videos" THEN "file_list.txt"
         ELSE IF endpoint = "merge_scenes" THEN "scenes_list.txt"
         ELSE "list.txt", 0, 0)

\* The files a handler hands to the concat encoder.
MergeInputs(w) ==
    IF data[w].endpoint = "merge_videos" THEN processed_files[w] ELSE temp_files[w]

\* Lines 268-276 and 503-511: name the output (a uuid name in OUTPUT_FOLDER)
\* and write the manifest.
MergeManifest(w) ==
    /\ pc[w] = "mv_manifest"
    /\ output_filepath' = [output_filepath EXCEPT ![w] = Join(OUTPUT_FOLDER, "merged", rid[w], 0)]
    /\ list_file' = [list_file EXCEPT ![w] = ListFile(data[w].endpoint)]
    /\ files' = WriteFile(files, ListFile(data[w].endpoint), Manifest(MergeInputs(w)))
    /\ created' = [created EXCEPT ![w] = @ \cup {ListFile(data[w].endpoint)}]
    /\ pc' = [pc EXCEPT ![w] = "mv_concat"]
    /\ UNCHANGED <<sceneVars, log, rid, data, i, temp_files, processed_files, raised, resp,
                   nreq>>

\* Lines 278-296 and 513-524: run the concat encoder on the manifest as it
\* is on disk now (check=True: a returncode != 0 raises), then send_file.
MergeConcat(w, outcome) ==
    /\ pc[w] = "mv_concat"
    /\ outcome = "ok" => /\ Exists(files, list_file[w])
                         /\ AllExist(files, files[list_file[w]])
                         /\ Concatenation(files, files[list_file[w]]) # Empty
    /\ outcome = "empty_output" => Exists(files, list_file[w])
    /\ IF outcome = "encoder_error"
         THEN /\ raised' = [raised EXCEPT ![w] = "CalledProcessError"]
              /\ UNCHANGED <<files, created, resp>>
         ELSE /\ files' = WriteFile(files, output_filepath[w],
                                     IF outcome = "empty_output" THEN Empty
                                     ELSE Concatenation(files, files[list_file[w]]))
              /\ created' = [created EXCEPT ![w] = @ \cup {output_filepath[w]}]
              /\ resp' = [resp EXCEPT ![w] = [status |-> 200, error |-> "none",
                                               file |-> output_filepath[w]]]
              /\ UNCHANGED raised
    /\ pc' = [pc EXCEPT ![w] = "mv_cleanup"]
    /\ UNCHANGED <<sceneVars, log, rid, data, i, temp_files, processed_files, list_file,
                   output_filepath, nreq>>

\* os.remove of each listed file that exists.
RemoveFiles(fs, paths) == [q \in (DOMAIN fs) \ paths |-> fs[q]]
Range(seq) == {seq[n] : n \in 1..Len(seq)}

\* Lines 301-313 and 529-541: the finally block removes the temporary and
\* processed files and the manifest, when they exist; an os.remove that
\* raises is logged and the file stays.  Then the handler returns.
RemoveOutcomes == {"ok", "error"}

MergeCleanup(w, outcome) ==
    /\ pc[w] = "mv_cleanup"
    /\ LET listed == Range(temp_files[w] \o processed_files[w])
                        \cup (IF list_file[w] # NoPath THEN {list_file[w]} ELSE {})
           present == listed \cap DOMAIN files
       IN /\ outcome = "error" => present # {}
          /\ files' = IF outcome = "ok" THEN RemoveFiles(files, present) ELSE files
    /\ log' = [log EXCEPT ![w] = IF outcome = "error" THEN @ \cup {"remove_error"} ELSE @]
    /\ resp' = [resp EXCEPT ![w] = ResponseAtReturn(w, outcome)]
    /\ raised' = [raised EXCEPT ![w] = "none"]
    /\ pc' = [pc EXCEPT ![w] = "done"]
    /\ i' = [i EXCEPT ![w] = 0]
    /\ temp_files' = [temp_files EXCEPT ![w] = <<>>]
    /\ processed_files' = [processed_files EXCEPT ![w] = <<>>]
    /\ list_file' = [list_file EXCEPT ![w] = NoPath]
    /\ output_filepath' = [output_filepath EXCEPT ![w] = NoPath]
    /\ UNCHANGED <<sceneVars, rid, data, nreq, created>>

\* Entries of merge_audio: "malformed" ('url' or 'filename' missing), or the
\* extension of the filename ("none": no '.' in the filename).
ALLOWED_VIDEO_EXTENSIONS == {"mp4", "avi", "mov"}
AudioEntryKinds == {"malformed", "none", "mp3", "mp4"}

\* Lines 147-149: a filename without '.' gets '.mp3'.
with_default_extension(ext) == IF ext = "none" THEN "mp3" ELSE ext

\* str.endswith on the extensions of the model.
EndsWith(ext, suffix) == ext = suffix

\* allowed_file (lines 91-92) on a filename with extension ext.
allowed_file(ext, allowed_extensions) ==
    \/ ext # "none" /\ ext \in allowed_extensions
    \/ \E a \in allowed_extensions : EndsWith(ext, a)

AudioInput(w) == Join(UPLOAD_FOLDER, "audio_input", rid[w], i[w])

\* Lines 143-163: the next entry: check its keys and its file type, download
\* it (requests.get, no check of the length) and save it in UPLOAD_FOLDER.
\* Every rejection returns at once; valid_files is temp_files here.
AudioFetch(w, kind, outcome) ==
    /\ pc[w] = "ma_file"
    /\ i[w] <= MaxShots
    /\ data' = [data EXCEPT ![w].items = Append(@, kind)]
    /\ IF kind = "malformed" \/ ~allowed_file(with_default_extension(kind),
                                               ALLOWED_VIDEO_EXTENSIONS)
         THEN /\ outcome = "ok"
              /\ resp' = [resp EXCEPT ![w] = Error(400, IF kind = "malformed"
                                                           THEN "Invalid file data structure"
                                                           ELSE "Invalid file type")]
              /\ pc' = [pc EXCEPT ![w] = "done"]
              /\ i' = [i EXCEPT ![w] = 0]
              /\ temp_files' = [temp_files EXCEPT ![w] = <<>>]
              /\ UNCHANGED <<files, created>>
         ELSE IF outcome = "http_error"
           THEN /\ resp' = [resp EXCEPT ![w] = Error(400, "Error downloading file")]
                /\ pc' = [pc EXCEPT ![w] = "done"]
                /\ i' = [i EXCEPT ![w] = 0]
                /\ temp_files' = [temp_files EXCEPT ![w] = <<>>]
                /\ UNCHANGED <<files, created>>
           ELSE /\ files' = WriteFile(files, AudioInput(w),
                                       IF outcome = "empty_body" THEN Empty
                                       ELSE SourceClip(rid[w], i[w]))
                /\ created' = [created EXCEPT ![w] = @ \cup {AudioInput(w)}]
                /\ temp_files' = [temp_files EXCEPT ![w] = Append(@, AudioInput(w))]
                /\ i' = [i EXCEPT ![w] = @ + 1]
                /\ UNCHANGED <<resp, pc>>
    /\ UNCHANGED <<sceneVars, log, rid, processed_files, list_file, output_filepath, raised,
                   nreq>>

AudioOutput(w) == Join(OUTPUT_FOLDER, "audio", rid[w], 0)

\* Lines 165-172, loop exhausted with one valid file: copy it to the output.
AudioCopy(w) ==
    /\ pc[w] = "ma_file"
    /\ Len(temp_files[w]) = 1
    /\ output_filepath' = [output_filepath EXCEPT ![w] = AudioOutput(w)]
    /\ LET cp == copy2(files, {UPLOAD_FOLDER}, temp_files[w][1], AudioOutput(w))
       IN /\ files' = cp.fs
          /\ created' = [created EXCEPT ![w] = @ \cup cp.wrote]
          /\ resp' = [resp EXCEPT ![w] = IF cp.raised # "none"
                                            THEN Error(500, "An unexpected error occurred")
                                            ELSE @]
    /\ pc' = [pc EXCEPT ![w] = "ma_finally"]
    /\ UNCHANGED <<sceneVars, log, rid, data, i, temp_files, processed_files, list_file,
                   raised, nreq>>

\* Lines 165-166, 173-175 and 95-99, loop exhausted with several valid
\* files: merge_audio_files writes its manifest, UPLOAD_FOLDER/list.txt.
AudioManifest(w) ==
    /\ pc[w] = "ma_file"
    /\ Len(temp_files[w]) > 1
    /\ output_filepath' = [output_filepath EXCEPT ![w] = AudioOutput(w)]
    /\ list_file' = [list_file EXCEPT ![w] = ListFile("merge_audio")]
    /\ files' = WriteFile(files, ListFile("merge_audio"), Manifest(temp_files[w]))
    /\ created' = [created EXCEPT ![w] = @ \cup {ListFile("merge_audio")}]
    /\ pc' = [pc EXCEPT ![w] = "ma_concat"]
    /\ UNCHANGED <<sceneVars, log, rid, data, i, temp_files, processed_files, raised, resp,
                   nreq>>

\* Lines 101-110 and 176-181: the concat encoder on the manifest as it is on
\* disk now (check=True: a returncode != 0 raises CalledProcessError, which
\* becomes a 500 response).
AudioConcat(w, outcome) ==
    /\ pc[w] = "ma_concat"
    /\ outcome = "ok" => /\ Exists(files, list_file[w])
                         /\ AllExist(files, files[list_file[w]])
                         /\ Concatenation(files, files[list_file[w]]) # Empty
    /\ outcome = "empty_output" => Exists(files, list_file[w])
    /\ IF outcome = "encoder_error"
         THEN /\ resp' = [resp EXCEPT ![w] = Error(500, "Error processing audio files")]
              /\ pc' = [pc EXCEPT ![w] = "ma_finally"]
              /\ UNCHANGED <<files, created>>
         ELSE /\ files' = WriteFile(files, output_filepath[w],
                                     IF outcome = "empty_output" THEN Empty
                                     ELSE Concatenation(files, files[list_file[w]]))
              /\ created' = [created EXCEPT ![w] = @ \cup {output_filepath[w]}]
              /\ pc' = [pc EXCEPT ![w] = "ma_remove"]
              /\ UNCHANGED resp
    /\ UNCHANGED <<sceneVars, log, rid, data, i, temp_files, processed_files, list_file,
                   output_filepath, raised, nreq>>

\* Lines 112-114 and 179-181: os.remove of the manifest, then of every
\* input; the first that is missing raises, and any exception becomes a 500
\* response.
AudioRemove(w) ==
    /\ pc[w] = "ma_remove"
    /\ IF ~Exists(files, list_file[w])
         THEN /\ resp' = [resp EXCEPT ![w] = Error(500, "An unexpected error occurred")]
              /\ UNCHANGED files
         ELSE /\ files' = RemoveFiles(files, {list_file[w]} \cup Range(temp_files[w]))
              /\ resp' = [resp EXCEPT
                             ![w] = IF AllExist(files, temp_files[w]) THEN @
                                    ELSE Error(500, "An unexpected error occurred")]
    /\ pc' = [pc EXCEPT ![w] = "ma_finally"]
    /\ UNCHANGED <<sceneVars, log, rid, data, i, temp_files, processed_files, list_file,
                   output_filepath, raised, nreq, created>>

\* Lines 182-188: the finally block removes the valid files that still
\* exist (an os.remove that raises is not caught here: the request fails);
\* then send_file.
AudioFinally(w, outcome) ==
    /\ pc[w] = "ma_finally"
    /\ LET present == Range(temp_files[w]) \cap DOMAIN files
       IN /\ outcome = "error" => present # {}
          /\ files' = IF outcome = "ok" THEN RemoveFiles(files, present) ELSE files
    /\ resp' = [resp EXCEPT
                   ![w] = IF outcome = "error" THEN Error(500, "OSError")
                          ELSE IF @ # NoResponse THEN @
                          ELSE IF Exists(files, output_filepath[w])
                            THEN [status |-> 200, error |-> "none", file |-> output_filepath[w]]
                          ELSE Error(500, "FileNotFoundError")]
    /\ pc' = [pc EXCEPT ![w] = "done"]
    /\ i' = [i EXCEPT ![w] = 0]
    /\ temp_files' = [temp_files EXCEPT ![w] = <<>>]
    /\ list_file' = [list_file EXCEPT ![w] = NoPath]
    /\ output_filepath' = [output_filepath EXCEPT ![w] = NoPath]
    /\ UNCHANGED <<sceneVars, log, rid, data, processed_files, raised, nreq, created>>

NextMerge ==
    \E w \in Workers :
        \/ \E endpoint \in Endpoints, key \in KeyChoices, shape \in MergeShapes :
               ReceiveMerge(w, endpoint, key, shape)
        \/ \E kind \in EntryKinds, outcome \in FetchOutcomes : MergeFetch(w, kind, outcome)
        \/ \E outcome \in TrimOutcomes : MergeTrim(w, outcome)
        \/ MergeEnd(w)
        \/ MergeManifest(w)
        \/ \E outcome \in ConcatOutcomes : MergeConcat(w, outcome)
        \/ \E outcome \in RemoveOutcomes : MergeCleanup(w, outcome)
        \/ \E kind \in AudioEntryKinds, outcome \in FetchOutcomes : AudioFetch(w, kind, outcome)
        \/ AudioCopy(w)
        \/ AudioManifest(w)
        \/ \E outcome \in ConcatOutcomes : AudioConcat(w, outcome)
        \/ AudioRemove(w)
        \/ \E outcome \in RemoveOutcomes : AudioFinally(w, outcome)

SpecMerge == InitMerge /\ [][NextMerge]_vars

\* ================================================================== claims
Acquired(w) == rid[w] > 0 /\ folderOf[rid[w]] # NoDir
ScratchOf(w) == folderOf[rid[w]]
ScratchGone(w) ==
    /\ ScratchOf(w) \notin dirs
    /\ \A p \in DOMAIN files : DirOf(p) # ScratchOf(w)
Returned(w) == pc[w] = "done"

AfterAcquire ==
    {"shot", "trim", "manifest", "concat", "copy", "fetch_audio", "mux", "fallback",
     "check", "cleanup"}
OutputStages == {"copy", "fetch_audio", "mux", "fallback", "check"}

ShotErrors ==
    {"RequestException", "Downloaded file is empty", "FileNotFoundError", "ffprobe failed",
     "Failed to process video", "Output file was not created", "Output file is empty"}
ConcatError == "Failed to merge videos"
EmptyOutputError == "Final output file is empty or does not exist"

\* C1, as stated: whenever the handler has returned from a request that
\* acquired a scratch directory, the directory and every file in it are gone.
C1_ScratchRemovedOnEveryExit ==
    \A w \in Workers : (Returned(w) /\ Acquired(w)) => ScratchGone(w)

\* C1, amended: whenever the handler has returned from a request that
\* acquired a scratch directory, on whatever exit path, the directory and
\* every file in it are gone unless rmtree raised, which has been logged.
C1_ScratchRemovedUnlessRmtreeFails ==
    \A w \in Workers :
        (Returned(w) /\ Acquired(w)) => (ScratchGone(w) \/ "cleanup_error" \in log[w])

\* A request that had saved files in its scratch directory ended in an error
\* response and the directory is gone.
C1_Witness ==
    \E w \in Workers :
        /\ Returned(w) /\ Acquired(w)
        /\ resp[w].status \in {400, 500}
        /\ \E p \in created[w] : DirOf(p) = ScratchOf(w)
        /\ "cleanup_error" \notin log[w]
        /\ ScratchGone(w)

\* C2: between acquisition and release the scratch directory of a request
\* exists, and no two requests are handed the same directory.
C2_OwnScratchDirectory ==
    /\ \A w \in Workers : pc[w] \in AfterAcquire => request_folder[w] \in dirs
    /\ \A r1, r2 \in 1..MaxRequests :
           (r1 # r2 /\ folderOf[r1] # NoDir /\ folderOf[r2] # NoDir)
               => folderOf[r1] # folderOf[r2]

\* C3: every file a request has written, the final deliverable apart, lies in
\* the request's scratch directory and is gone once the handler has returned.
C3_IntermediatesOnlyInScratch ==
    \A w \in Workers : \A p \in created[w] :
        DirOf(p) # OUTPUT_FOLDER =>
            /\ DirOf(p) = ScratchOf(w)
            /\ Returned(w) => ~Exists(files, p)

\* C4, as stated: a request whose audio step failed (the warning of line 451
\* was logged) ends in a success response.
C4_AudioFailureEndsInSuccess ==
    \A w \in Workers :
        (Returned(w) /\ "audio_warning" \in log[w]) => resp[w].status = 200

\* C4, amended: when the audio step fails, the handler copies the merged
\* video to the output path and goes on to the final check with no exception
\* in flight; the request then ends in success, or in the error of the final
\* check when the file at the output path is empty, never in an audio error.
C4_AudioFailureFallsBackToVideo ==
    /\ [](\A w \in Workers :
              (Returned(w) /\ "audio_warning" \in log[w])
                  => (resp[w].status = 200 \/ resp[w].error = EmptyOutputError))
    /\ [][\A w \in Workers :
              (pc[w] = "fallback" /\ pc'[w] # "fallback")
                  => /\ pc'[w] = "check"
                     /\ raised'[w] = "none"
                     /\ "audio_warning" \in log'[w]
                     /\ Exists(files', output_filepath'[w])
                     /\ files'[output_filepath'[w]] = files[shots_merged[w]]]_vars

\* A request whose audio step failed has returned a success response.
C4_Witness ==
    \E w \in Workers :
        Returned(w) /\ "audio_warning" \in log[w] /\ resp[w].status = 200

\* C5: a request that failed in a shot or in the concatenation returned the
\* 500 error and wrote nothing to the output folder and nothing of a later
\* stage (no manifest or merged file after a shot failure, no audio after a
\* concat failure); and a request is in the output stages only with every
\* shot of the list processed and the merged file written.
C5_NoPartialDeliverable ==
    \A w \in Workers :
        /\ (Returned(w) /\ resp[w].error \in ShotErrors \cup {ConcatError})
              => /\ resp[w].status = 500
                 /\ \A p \in created[w] :
                        /\ DirOf(p) # OUTPUT_FOLDER
                        /\ p[3] # "audio"
                        /\ p[3] = "downloaded" => p[5] >= 1
        /\ (Returned(w) /\ resp[w].error \in ShotErrors)
              => \A p \in created[w] : p[3] \notin {"merged", "shots_list.txt"}
        /\ pc[w] \in OutputStages
              => /\ Len(processed_files[w]) = Len(data[w].shots)
                 /\ \A k \in 1..Len(data[w].shots) : data[w].shots[k] # "malformed"
                 /\ Exists(files, shots_merged[w])

\* A request failed in its second shot after its first shot had been
\* processed.
C5_Witness ==
    \E w \in Workers :
        /\ Returned(w) /\ Acquired(w)
        /\ resp[w].error \in ShotErrors
        /\ Join(ScratchOf(w), "processed", rid[w], 1) \in created[w]

\* C6: the manifest the concat encoder is about to read has one entry per
\* shot of the request, and its k-th entry is the processed file of the k-th
\* shot, holding that shot's clip.
C6_ManifestInShotOrder ==
    \A w \in Workers :
        pc[w] = "concat" =>
            LET m == files[list_file[w]]
            IN /\ Len(m) >= 1
               /\ Len(m) = Len(data[w].shots)
               /\ \A k \in 1..Len(m) :
                      /\ m[k] = Join(request_folder[w], "processed", rid[w], k)
                      /\ files[m[k]] \in {SourceClip(rid[w], k), TrimmedClip(rid[w], k)}

\* A manifest of two shots is about to be read.
C6_Witness ==
    \E w \in Workers : pc[w] = "concat" /\ Len(files[list_file[w]]) = 2

\* C7: the success response is set only by the final check and only when
\* the file at the output path exists and is not empty at that moment;
\* otherwise the check raises, and the exception becomes the 500 response.
C7_SuccessOnlyWithNonEmptyOutput ==
    [][\A w \in Workers :
           /\ (resp'[w].status = 200 /\ resp[w].status # 200) => pc[w] = "check"
           /\ (pc[w] = "check" /\ pc'[w] # "check")
                 => IF /\ output_filepath[w] \in DOMAIN files
                       /\ Len(files[output_filepath[w]]) > 0
                      THEN resp'[w].status = 200 /\ raised'[w] = "none"
                      ELSE resp'[w].status # 200 /\ raised'[w] = EmptyOutputError
           /\ (pc[w] = "cleanup" /\ pc'[w] = "done" /\ raised[w] # "none")
                 => resp'[w] = Error(500, raised[w])]_vars

\* Every stage reported success, the final file was empty, and the request
\* failed.
C7_Witness ==
    \E w \in Workers : Returned(w) /\ resp[w] = Error(500, EmptyOutputError)

\* C8: a request without 'shots' or with an empty list has been answered 400
\* at once: no scratch directory was handed to it and it wrote no file.
C8_RejectedBeforeAcquire ==
    \A w \in Workers :
        data[w].shape \in {"no_shots", "empty"} =>
            /\ Returned(w)
            /\ resp[w].status = 400
            /\ folderOf[rid[w]] = NoDir
            /\ created[w] = {}

\* A request with an empty shot list has been rejected.
C8_Witness ==
    \E w \in Workers :
        data[w].shape = "empty" /\ Returned(w) /\ resp[w].status = 400

\* C9: once the input is probed, the duration computed for the encoder is
\* min(end - start, D), the encoder is what runs next whatever the window,
\* and it is handed that duration and the start offset.
C9_DurationIsMinOfWindowAndSource ==
    LET m == Min(tv.end_time - tv.start_time, tv.input_duration)
    IN /\ tv.pc = "encode" => tv.target_duration = m
       /\ (tv.input_duration > 0 /\ tv.pc # "encode")
             => /\ tv.result \in TrimOutcomes \ {"probe_error"}
                /\ tv.t = m
                /\ tv.ss = tv.start_time

\* A window longer than the source went through the encoder with the
\* duration clamped to the source's.
C9_Witness ==
    /\ tv.pc = "returned"
    /\ tv.start_time >= 0
    /\ tv.end_time - tv.start_time > tv.input_duration
    /\ tv.t = tv.input_duration

\* C10, as stated: a trim with a window longer than the source yields an
\* output as long as the source.
C10_OutputLastsSourceDuration ==
    (tv.pc = "returned" /\ tv.end_time - tv.start_time > tv.input_duration)
        => tv.output_duration = tv.input_duration

\* C10, amended: a trim with a window longer than the source and a start
\* offset >= 0 yields an output of D - start seconds, which is the source
\* duration exactly when start = 0.
C10_OutputLastsRemainderAfterStart ==
    (tv.pc = "returned" /\ tv.end_time - tv.start_time > tv.input_duration
        /\ tv.start_time >= 0)
        => /\ tv.output_duration = tv.input_duration - tv.start_time
           /\ (tv.output_duration = tv.input_duration) <=> (tv.start_time = 0)

\* A window longer than the source, starting after 0, was trimmed.
C10_Witness ==
    /\ tv.pc = "returned"
    /\ tv.end_time - tv.start_time > tv.input_duration
    /\ tv.start_time > 0

\* C11: a shot with no window is processed by a plain copy: the step that
\* processes it cannot fail, makes the processed file equal to the downloaded
\* content, appends it to processed_files, and leaves behind no trace of the
\* probe or the trim encoder (no trimmed content, no debug copy of one).
C11_FullShotIsCopied ==
    [][\A w \in Workers :
          (pc[w] = "trim" /\ data[w].shots[i[w]] = "full" /\ pc'[w] # "trim")
          => /\ pc'[w] = "shot"
             /\ raised'[w] = "none"
             /\ processed_files'[w] = Append(processed_files[w], TempOutput(w))
             /\ TempOutput(w) \in DOMAIN files'
             /\ files'[TempOutput(w)] = files[TempInput(w)]
             /\ files'[TempOutput(w)] = SourceClip(rid[w], i[w])
             /\ DebugProcessed(rid[w], i[w]) \notin DOMAIN files'
             /\ tv' = tv]_vars

C11_Witness ==
    \E w \in Workers :
        /\ pc[w] = "shot"
        /\ i[w] = 2
        /\ data[w].shots = <<"full">>
        /\ Len(processed_files[w]) = 1
        /\ files[processed_files[w][1]] = SourceClip(rid[w], 1)

\* C12: a scene of exactly one shot is concatenated by a plain copy: no
\* manifest is written for it and it never stands before the concat encoder.
C12_SingleShotSkipsJoin ==
    \A w \in Workers :
        (Len(data[w].shots) = 1 /\ pc[w] \in {"concat"} \cup OutputStages)
        => /\ pc[w] # "concat"
           /\ list_file[w] = NoPath
           /\ \A p \in created[w] : p[3] # "shots_list.txt"

StageOrder ==
    {<<"idle", "acquire">>, <<"idle", "done">>, <<"done", "acquire">>, <<"done", "done">>,
     <<"acquire", "shot">>,
     <<"shot", "trim">>, <<"shot", "manifest">>, <<"shot", "cleanup">>,
     <<"trim", "shot">>, <<"trim", "cleanup">>,
     <<"manifest", "concat">>, <<"manifest", "cleanup">>,
     <<"concat", "copy">>, <<"concat", "fetch_audio">>, <<"concat", "cleanup">>,
     <<"fetch_audio", "mux">>, <<"fetch_audio", "fallback">>,
     <<"mux", "check">>, <<"mux", "fallback">>,
     <<"fallback", "check">>, <<"fallback", "cleanup">>,
     <<"copy", "check">>, <<"copy", "cleanup">>,
     <<"check", "cleanup">>,
     <<"cleanup", "done">>}

\* C13: within one request the stages run one after the other in the order
\* of the pipeline.  Shot k is fetched, then trimmed, before shot k+1 is
\* fetched; the manifest and the concat come when every shot is processed;
\* the audio fetch, the mux and the copy to the output come only after a
\* concat that returned success; the final check is followed by nothing but
\* the release.
C13_StagesInOrder ==
    /\ [](\A w \in Workers :
            /\ pc[w] = "shot" => /\ Len(temp_files[w]) = i[w] - 1
                                 /\ Len(processed_files[w]) = i[w] - 1
                                 /\ Len(data[w].shots) = i[w] - 1
            /\ pc[w] = "trim" => /\ Len(temp_files[w]) = i[w]
                                 /\ Len(processed_files[w]) = i[w] - 1
                                 /\ Len(data[w].shots) = i[w]
            /\ pc[w] \in {"manifest", "concat"} \cup OutputStages =>
                   /\ Len(data[w].shots) >= 1
                   /\ Len(processed_files[w]) = Len(data[w].shots)
            /\ pc[w] \in {"manifest", "concat"} => output_filepath[w] = NoPath
            /\ pc[w] \in OutputStages =>
                   /\ shots_merged[w] \in created[w]
                   /\ raised[w] = "none")
    /\ [][\A w \in Workers :
            /\ (pc'[w] # pc[w] \/ rid'[w] # rid[w]) => <<pc[w], pc'[w]>> \in StageOrder
            /\ (pc[w] = "shot" /\ pc'[w] = "manifest") =>
                   Len(processed_files[w]) = Len(data[w].shots)]_vars

C13_Witness ==
    \E w \in Workers :
        /\ pc[w] = "check"
        /\ Len(processed_files[w]) = 2
        /\ Len(temp_files[w]) = 3
        /\ data[w].shots = <<"window", "full">>

InFlight(w) == pc[w] \in AfterAcquire

\* C14: two requests that run at the same time never touch the same path:
\* the paths they have written are disjoint, and the file a request is
\* about to return holds nothing but that request's own content.
C14_NoSharedPaths ==
    /\ \A w1, w2 \in Workers :
          (w1 # w2 /\ InFlight(w1) /\ InFlight(w2)) => created[w1] \cap created[w2] = {}
    /\ \A w \in Workers :
          (pc[w] = "cleanup" /\ resp[w].status = 200 /\ resp[w].file \in DOMAIN files)
          => \A n \in 1..Len(files[resp[w].file]) : files[resp[w].file][n][2] = rid[w]

FetchOrTrimErrors ==
    {"RequestException", "Downloaded file is empty", "ffprobe failed",
     "Failed to process video", "Output file was not created", "Output file is empty"}

FailedAtShot(w) == pc[w] = "cleanup" /\ raised[w] \in FetchOrTrimErrors

\* C15: the error returned for a failed fetch or trim identifies the shot.
\* The error returned is the message of the exception in flight when the
\* handler reaches its finally block; it identifies the shot when two
\* requests that fail with the same message have failed at the same shot.
\* (The messages of the code vary only in the URL asked, in the uuid path of
\* a temporary file and in the encoder's stderr: none is the index of the
\* shot or its 'filename', so the model leaves these parts out.)
C15_ErrorIdentifiesShot ==
    \A w1, w2 \in Workers :
        (FailedAtShot(w1) /\ FailedAtShot(w2) /\ raised[w1] = raised[w2]) => i[w1] = i[w2]

Handling(w) == pc[w] \notin {"idle", "done"}

\* C16: every request that is being handled eventually returns, with
\* exactly one outcome: success with one final file, or an error and no
\* file.  Once the outcome is known (an exception is in flight, or the
\* success response is made) the handler takes no step but the release.
C16_OneTerminalOutcome ==
    /\ \A w \in Workers : Handling(w) ~> Returned(w)
    /\ [](\A w \in Workers :
            (Returned(w) /\ rid[w] > 0) =>
                \/ /\ resp[w].status = 200
                   /\ resp[w].error = "none"
                   /\ resp[w].file # NoPath
                \/ /\ resp[w].status \in {400, 500}
                   /\ resp[w].error # "none"
                   /\ resp[w].file = NoPath)
    /\ [][\A w \in Workers :
            (Handling(w) /\ (raised[w] # "none" \/ resp[w] # NoResponse))
            => (pc[w] = "cleanup" /\ pc'[w] \in {"cleanup", "done"})]_vars

C16_Witness ==
    \E w \in Workers :
        /\ Returned(w)
        /\ rid[w] = 2
        /\ resp[w].status = 500
        /\ resp[w].error = "Failed to merge videos"
        /\ \E p \in DOMAIN files : p[3] = "scene" /\ p[4] = 1

\* C17: a failure to remove the scratch directory is only logged.  The
\* release step returns the primary result of the request, the success file
\* or the original error, whether or not the removal failed, and no response
\* ever carries the removal's error.
C17_RmtreeFailureOnlyLogged ==
    /\ [](\A w \in Workers :
            (Returned(w) /\ "cleanup_error" \in log[w]) =>
                /\ resp[w].status \in {200, 400, 500}
                /\ resp[w].error # "rmtree failed"
                /\ resp[w].status = 200 => resp[w].file # NoPath)
    /\ [][\A w \in Workers :
            (pc[w] = "cleanup" /\ pc'[w] = "done") =>
                /\ raised[w] # "none" => resp'[w] = Error(500, raised[w])
                /\ raised[w] = "none" => resp'[w] = resp[w]
                /\ \A p \in DOMAIN files : DirOf(p) = OUTPUT_FOLDER =>
                       (p \in DOMAIN files' /\ files'[p] = files[p])]_vars

C17_Witness ==
    \E w \in Workers :
        /\ Returned(w)
        /\ "cleanup_error" \in log[w]
        /\ resp[w].status = 200
        /\ resp[w].file \in DOMAIN files
        /\ ScratchOf(w) \in dirs

AllOfKind(items, kinds) == Len(items) >= 1 /\ \A n \in 1..Len(items) : items[n] \in kinds

\* C18: a merge_videos request with a valid key and a non-empty list of
\* entries that each give a url and a filename and no timestamp, in which no
\* download and no encoder call failed, is answered with the merged video.
C18_MergeVideosWithoutTimestamps ==
    \A w \in Workers :
        (/\ Returned(w)
         /\ data[w].endpoint = "merge_videos"
         /\ data[w].key = "valid"
         /\ data[w].shape = "files"
         /\ AllOfKind(data[w].items, {"url_filename"})
         /\ resp[w].status # 500)
        => resp[w].status = 200

\* C19: a merge_audio request with a valid key and a list of files named
\* with the .mp3 extension, or with no extension, in which no download and
\* no encoder call failed, is answered with the merged audio.
C19_MergeAudioAcceptsMp3 ==
    \A w \in Workers :
        (/\ Returned(w)
         /\ data[w].endpoint = "merge_audio"
         /\ data[w].key = "valid"
         /\ data[w].shape = "files"
         /\ AllOfKind(data[w].items, {"mp3", "none"})
         /\ resp[w].error # "Error downloading file"
         /\ resp[w].status # 500)
        => resp[w].status = 200

\* C20: under any interleaving of concurrent merge requests, when a
\* request's concat encoder is about to read its manifest, the manifest
\* exists and lists exactly that request's own files in its own order.
C20_EncoderReadsOwnManifest ==
    \A w \in Workers :
        pc[w] \in {"mv_concat", "ma_concat"}
        => /\ Exists(files, list_file[w])
           /\ files[list_file[w]] = Manifest(MergeInputs(w))

\* The uuid-named files of the current request of w that are in the upload
\* folder now.
LeftInUploads(w) ==
    {p \in created[w] \cap DOMAIN files :
        DirOf(p) = UPLOAD_FOLDER /\ p[3] \in {"input", "processed", "audio_input"}}

\* C21: when merge_videos returns, on any path, none of the files the request
\* created in the upload folder remains, the output of a failed trim
\* included (even when every os.remove of the finally block succeeded).
C21_MergeVideosLeavesNothing ==
    \A w \in Workers :
        (Returned(w) /\ data[w].endpoint = "merge_videos" /\ "remove_error" \notin log[w])
        => LeftInUploads(w) = {}

\* C22: when merge_audio returns, on any path, every temporary file it
\* downloaded into the upload folder has been removed, the files of the
\* entries before a rejected entry included (unless an os.remove raised).
C22_MergeAudioLeavesNothing ==
    \A w \in Workers :
        (Returned(w) /\ data[w].endpoint = "merge_audio" /\ resp[w].error # "OSError")
        => \A p \in LeftInUploads(w) : p[3] # "audio_input"

EncoderInvoked ==
    \/ tv.pc \in {"verify", "returned"}
    \/ tv.pc = "raised" /\ tv.result # "probe_error"

\* C23: whenever process_video_with_timestamps has invoked the encoder, the
\* duration it passed is strictly positive and the start offset it passed is
\* not negative, whatever the window of the request.
C23_EncoderArgsInRange ==
    EncoderInvoked => (tv.t > 0 /\ tv.ss >= 0)

\* C24: a shot without url or filename is detected when the loop reaches it.
\* At that step the shots before it have been fetched and processed, nothing
\* is fetched for it, and the handler goes to the release with the 400
\* invalid-shot response; the request returns that response, has written no
\* manifest, merged file or output, and its scratch directory has been
\* released (removed, or the failure of the removal logged).
C24_MalformedShotFoundInLoop ==
    /\ [](\A w \in Workers :
            (Returned(w) /\ resp[w].error = "Invalid shot data structure") =>
                /\ resp[w].status = 400
                /\ \A p \in created[w] : p[3] \notin {"shots_list.txt", "merged", "scene"}
                /\ ScratchGone(w) \/ "cleanup_error" \in log[w])
    /\ [][\A w \in Workers :
            (/\ pc[w] = "shot"
             /\ Len(data'[w].shots) = Len(data[w].shots) + 1
             /\ data'[w].shots[Len(data'[w].shots)] = "malformed")
            => /\ resp'[w] = Error(400, "Invalid shot data structure")
               /\ pc'[w] = "cleanup"
               /\ files' = files
               /\ Len(processed_files[w]) = i[w] - 1
               /\ \A n \in 1..(i[w] - 1) :
                      /\ data[w].shots[n] # "malformed"
                      /\ Join(request_folder[w], "input", rid[w], n) \in created[w]
                      /\ processed_files[w][n] \in created[w]]_vars

C24_Witness ==
    \E w \in Workers :
        /\ Returned(w)
        /\ resp[w] = Error(400, "Invalid shot data structure")
        /\ \E p \in created[w] : p[3] = "processed" /\ p[5] = 1
        /\ ScratchGone(w)

\* C25: a merge_videos or merge_audio request whose X-API-Key is missing or
\* wrong is answered with the 401 error at once: no entry of its body is
\* looked at, nothing is downloaded or encoded, and no file is created or
\* changed.
C25_InvalidKeyRejectedFirst ==
    /\ [](\A w \in Workers :
            (data[w].key = "invalid" /\ data[w].endpoint \in {"merge_videos", "merge_audio"})
            => /\ Returned(w)
               /\ resp[w] = Error(401, "Invalid API key")
               /\ data[w].items = <<>>
               /\ created[w] = {}
               /\ temp_files[w] = <<>> /\ processed_files[w] = <<>>)
    /\ [][\A w \in Workers :
            (rid'[w] # rid[w] /\ data'[w].key = "invalid") => files' = files]_vars

C25_Witness ==
    \E w1, w2 \in Workers :
        /\ data[w1].endpoint = "merge_videos" /\ data[w1].key = "invalid"
        /\ data[w2].endpoint = "merge_audio" /\ data[w2].key = "invalid"
        /\ Returned(w1) /\ resp[w1].status = 401
        /\ Returned(w2) /\ resp[w2].status = 401
====
